---- MODULE Spec2Model ----
(***************************************************************************)
(* SocraTask AI Nexus: the hardware diagnostic pipeline                    *)
(* (hardware_profiler.py), the model recommendation engine                 *)
(* (model_manager.py) and the session that ties them together              *)
(* (nexus_core.py).                                                        *)
(*                                                                         *)
(* Quantities in GB (ram_gb, gpu_vram_gb, ram_requirement_gb) are kept in  *)
(* hundredths of a GB: the census rounds its readings to two decimals      *)
(* (round(x, 2)), and the catalog's requirements have at most one.         *)
(* Temperatures are whole degrees Celsius.                                 *)
(***************************************************************************)
EXTENDS Integers, Sequences, FiniteSets, TLC

VARIABLES
    initialized,          \* QwenNexus.initialized
    capability_vector,    \* QwenNexus.capability_vector
    trust_store,          \* QwenNexus.trust_store
    orchestration_rules,  \* ModelManager.orchestration_rules
    profiler_vector,      \* HardwareProfiler.capability_vector
    pc,                   \* position of the caller's thread
    has_callback,         \* progress_callback is not None in the running call
    inits,                \* number of initialize() calls started
    hardware_data,        \* run_full_diagnostic: hardware_data
    thermal_data,         \* run_full_diagnostic: thermal_data
    benchmark_data,       \* run_full_diagnostic: benchmark_data
    initial_temp,         \* _thermal_characterization: initial_temp
    max_temp,             \* _thermal_characterization: max_temp
    temp_readings,        \* _thermal_characterization: temp_readings
    worker,               \* load_test_thread: "unstarted" | "alive" | "dead"
    work_left,            \* iterations left in _cpu_load_test's loop
    polls,                \* iterations of the polling loop so far
    samples,              \* history: every available reading the polling loop got
    trace,                \* history: stage and callback events of the running diagnostic
    suitable_models,      \* get_model_recommendations: suitable_models (after the sort)
    recommendations,      \* value returned by the last get_model_recommendations
    last_call,            \* history: the last session call and how it ended
    catalog,              \* ModelManager.model_catalog
    active_models,        \* ModelManager.active_models (its keys)
    rec_vector,           \* history: the vector the last recommendation was computed for
    adders                \* threads inside add_orchestration_rule: position, local `rule`

vars == <<initialized, capability_vector, trust_store, orchestration_rules,
          profiler_vector, pc, has_callback, inits, hardware_data, thermal_data,
          benchmark_data, initial_temp, max_temp, temp_readings, worker,
          work_left, polls, samples, trace, suitable_models, recommendations,
          last_call, catalog, active_models, rec_vector, adders>>

sessionVars == <<initialized, capability_vector, trust_store, orchestration_rules>>
thermalVars == <<initial_temp, max_temp, temp_readings, worker, work_left, polls, samples>>
diagVars    == <<profiler_vector, hardware_data, thermal_data, benchmark_data, trace>>
recVars     == <<suitable_models, recommendations, rec_vector>>
managerVars == <<catalog, active_models, adders>>

(***************************************************************************)
(* Python's None and the values that stand for absent results.             *)
(***************************************************************************)
\* None where the code expects a number (Optional[float])
NoneVal == -1000
\* None where the code expects a ModelSpec
NoModel == [none |-> TRUE]
\* None where the code expects a HardwareCapabilityVector
NoVector == [none |-> TRUE]
\* None where the code expects a dict (hardware_data, thermal_data, ...)
NoData == [none |-> TRUE]
\* the empty dict {}
EmptyDict == [empty |-> TRUE]

\* Python truthiness of an Optional[float]: None and 0.0 are both false
Truthy(x) == x # NoneVal /\ x # 0

Range(s) == {s[i] : i \in 1..Len(s)}

(***************************************************************************)
(* The model catalog (ModelManager._initialize_model_catalog).             *)
(***************************************************************************)
ModelSpec(n, f, s, v, q, ram) ==
    [name |-> n, family |-> f, size |-> s, variant |-> v, quantization |-> q,
     ram_requirement_gb |-> ram]

model_catalog ==
    << ModelSpec("qwen2.5-0.5b-q4_k_m.gguf", "Qwen2.5", "0.5B", "Qwen2.5", "Q4_K_M", 50),
       ModelSpec("qwen2.5-1.5b-q4_k_m.gguf", "Qwen2.5", "1.5B", "Qwen2.5", "Q4_K_M", 120),
       ModelSpec("qwen2.5-7b-q6_k.gguf", "Qwen2.5", "7B", "Qwen2.5", "Q6_K", 650),
       ModelSpec("qwen2.5-32b-q8_0.gguf", "Qwen2.5", "32B", "Qwen2.5", "Q8_0", 3200),
       ModelSpec("qwen2.5-coder-1.5b-q4_k_m.gguf", "Qwen2.5-Coder", "1.5B", "Qwen2.5-Coder", "Q4_K_M", 120),
       ModelSpec("qwen2.5-coder-7b-q6_k.gguf", "Qwen2.5-Coder", "7B", "Qwen2.5-Coder", "Q6_K", 650),
       ModelSpec("qwen2.5-math-1.5b-q4_k_m.gguf", "Qwen2.5-Math", "1.5B", "Qwen2.5-Math", "Q4_K_M", 120),
       ModelSpec("qwen2.5-math-7b-q6_k.gguf", "Qwen2.5-Math", "7B", "Qwen2.5-Math", "Q6_K", 650),
       ModelSpec("qwen2.5-vl-2b-q4_k_m.gguf", "Qwen2.5-VL", "2B", "Qwen2.5-VL", "Q4_K_M", 200) >>

\* position of a catalog entry (names are unique keys)
CatalogIndex(m) == CHOOSE i \in 1..Len(model_catalog) : model_catalog[i].name = m.name

\* the size classes named in the filter: model.size in ["7B", "32B"]
LargeSizes == {"7B", "32B"}

(***************************************************************************)
(* ModelManager.get_model_recommendations: filter, sort, primary and       *)
(* alternatives.                                                           *)
(***************************************************************************)
\* model.ram_requirement_gb * 0.7 <= gpu_vram_gb, both in hundredths
FitsGpuOffload(model, vram) == 7 * model.ram_requirement_gb <= 10 * vram

Suitable_NoOffloadBudget(model, V) ==
    /\ model.ram_requirement_gb <= V.ram_gb
    /\ IF Truthy(V.gpu_vram_gb) /\ model.size \in LargeSizes
         THEN TRUE
         ELSE model.size \notin LargeSizes

\* the nested if/elif of the filter loop
\* the filter without its RAM test
Suitable_NoRamCheck(model, V) ==
    IF Truthy(V.gpu_vram_gb) /\ model.size \in LargeSizes
      THEN FitsGpuOffload(model, V.gpu_vram_gb)
      ELSE model.size \notin LargeSizes

\* the filter with its RAM test turned round
Suitable_RamCheckReversed(model, V) ==
    /\ model.ram_requirement_gb >= V.ram_gb
    /\ IF Truthy(V.gpu_vram_gb) /\ model.size \in LargeSizes
         THEN FitsGpuOffload(model, V.gpu_vram_gb)
         ELSE model.size \notin LargeSizes

Suitable(model, V) ==
    /\ model.ram_requirement_gb <= V.ram_gb
    /\ IF Truthy(V.gpu_vram_gb) /\ model.size \in LargeSizes
         THEN FitsGpuOffload(model, V.gpu_vram_gb)
         ELSE model.size \notin LargeSizes

\* the filter loop: catalog order is kept
FilterSuitable(V) == SelectSeq(catalog, LAMBDA m : Suitable(m, V))

\* an ascending sort reversed afterwards: equal keys end in reverse order
InsertDesc_TiesReversed(x, s) ==
    LET before == {i \in 1..Len(s) : s[i].ram_requirement_gb > x.ram_requirement_gb}
        k == Cardinality(before)
    IN  SubSeq(s, 1, k) \o <<x>> \o SubSeq(s, k + 1, Len(s))

\* list.sort(key=ram_requirement_gb, reverse=True): stable, so equal keys
\* keep their order. x goes after every element whose key is >= its own.
InsertDesc(x, s) ==
    LET before == {i \in 1..Len(s) : s[i].ram_requirement_gb >= x.ram_requirement_gb}
        k == Cardinality(before)
    IN  SubSeq(s, 1, k) \o <<x>> \o SubSeq(s, k + 1, Len(s))

RECURSIVE SortFrom(_, _)
SortFrom(s, acc) ==
    IF s = <<>> THEN acc ELSE SortFrom(Tail(s), InsertDesc(Head(s), acc))

SortByRamDesc(s) == SortFrom(s, <<>>)

\* Python slice s[a:b] (0-based, end exclusive, clipped to the list)
Slice(s, a, b) ==
    LET hi == IF b < Len(s) THEN b ELSE Len(s)
    IN  IF a >= hi THEN <<>> ELSE SubSeq(s, a + 1, hi)

\* next((m for m in s if P(m)), default), `hits` being the m of s with P(m)
FirstWhere(s, hits, default) ==
    IF \E i \in 1..Len(s) : s[i] \in hits
      THEN s[CHOOSE i \in 1..Len(s) : s[i] \in hits /\ \A j \in 1..(i - 1) : s[j] \notin hits]
      ELSE default

(***************************************************************************)
(* ModelManager._generate_ai_profiles.                                     *)
(***************************************************************************)
\* Python's `sub in size` over the size tags of the catalog
SizeContains(size, sub) ==
    CASE sub = "0.5" -> size = "0.5B"
      [] sub = "1.5" -> size = "1.5B"
      [] sub = "7"   -> size = "7B"
      [] OTHER       -> FALSE

\* Python's `sub in variant` / `sub == variant` over the variants of the catalog
VariantContains(variant, sub) ==
    CASE sub = "Coder" -> variant = "Qwen2.5-Coder"
      [] sub = "Math"  -> variant = "Qwen2.5-Math"
      [] OTHER         -> FALSE

tiny_model(sm) ==
    FirstWhere(sm, {m \in Range(sm) : m.size = "0.5B"},
        FirstWhere(sm, {m \in Range(sm) : SizeContains(m.size, "0.5")},
            IF sm # <<>> THEN sm[1] ELSE NoModel))

small_model(sm) ==
    FirstWhere(sm, {m \in Range(sm) : m.size = "1.5B"},
        FirstWhere(sm, {m \in Range(sm) : SizeContains(m.size, "1.5")}, tiny_model(sm)))

\* medium_model picked from the whole catalog instead of the suitable list
medium_model_FromCatalog(sm) ==
    FirstWhere(model_catalog, {m \in Range(model_catalog) : m.size = "7B"}, small_model(sm))

medium_model(sm) ==
    FirstWhere(sm, {m \in Range(sm) : m.size = "7B"},
        FirstWhere(sm, {m \in Range(sm) : SizeContains(m.size, "7")}, small_model(sm)))

coder_model(sm) ==
    FirstWhere(sm, {m \in Range(sm) : VariantContains(m.variant, "Coder")}, small_model(sm))

math_model(sm) ==
    FirstWhere(sm, {m \in Range(sm) : VariantContains(m.variant, "Math")}, small_model(sm))

general_model(sm) ==
    FirstWhere(sm, {m \in Range(sm) : m.variant = "Qwen2.5"}, small_model(sm))

\* `capability_vector.gpu_vram_gb and capability_vector.gpu_vram_gb >= n`, n in GB
VramAtLeast_Strict(V, n) == Truthy(V.gpu_vram_gb) /\ V.gpu_vram_gb > 100 * n

VramAtLeast(V, n) == Truthy(V.gpu_vram_gb) /\ V.gpu_vram_gb >= 100 * n

\* `x.name if x else y.name`
NameOr(x, y) == IF x # NoModel THEN x.name ELSE y.name

generate_ai_profiles(V, sm) ==
    [ balanced_daily_driver |->
        [ recommended_model |-> NameOr(medium_model(sm), small_model(sm)),
          context_window |-> 4096,
          gpu_layers |-> IF VramAtLeast(V, 4) THEN 20 ELSE 0,
          threads |-> V.cpu_cores ],
      specialist_ensemble |->
        [ recommended_models |->
            <<coder_model(sm).name, math_model(sm).name, general_model(sm).name>>,
          routing_rules |->
            << [task |-> "coding", model |-> coder_model(sm).name],
               [task |-> "math", model |-> math_model(sm).name],
               [task |-> "general", model |-> general_model(sm).name] >>,
          context_window |-> 4096,
          gpu_layers |-> IF VramAtLeast(V, 4) THEN 10 ELSE 0 ],
      speed_demon |->
        [ recommended_model |-> NameOr(tiny_model(sm), small_model(sm)),
          context_window |-> 2048,
          gpu_layers |-> 0,
          threads |-> V.cpu_cores,
          fallback_model |-> NameOr(medium_model(sm), small_model(sm)) ],
      power_user_config |->
        [ recommended_model |->
            IF V.ram_gb >= 1600 /\ VramAtLeast(V, 4)
              THEN medium_model(sm).name ELSE small_model(sm).name,
          context_window |-> IF V.ram_gb >= 1600 THEN 8192 ELSE 4096,
          gpu_layers |-> IF VramAtLeast(V, 8) THEN 30
                         ELSE IF VramAtLeast(V, 4) THEN 20 ELSE 5,
          threads |-> V.cpu_threads,
          custom_rules |-> <<>> ] ]

\* suitable_models[1:4]
Alternatives(sm) == Slice(sm, 1, 4)

\* the local suitable_models after the filter loop and the sort
RankedSuitable(V) == SortByRamDesc(FilterSuitable(V))

\* self.model_catalog after the call: the filter loop fills a new list and the
\* sort works on that list, so the catalog is what it was
CatalogAfterRecommendation_SortedInPlace(cat) == SortByRamDesc(cat)

CatalogAfterRecommendation(cat) == cat

\* the dict the method returns
get_model_recommendations(V) ==
    LET sm == RankedSuitable(V)
    IN  IF sm # <<>>
          THEN [ primary_model |-> sm[1],
                 alternative_models |-> Alternatives(sm),
                 profiles |-> generate_ai_profiles(V, sm) ]
          ELSE [ primary_model |-> NoModel,
                 alternative_models |-> <<>>,
                 profiles |-> EmptyDict ]

(***************************************************************************)
(* HardwareProfiler: the stages of run_full_diagnostic as functions of     *)
(* what the sensors return.                                                *)
(***************************************************************************)
\* _assess_storage_tier: the probe's answer, or 'Unknown' on any exception
assess_storage_tier(probe) == IF probe = "fails" THEN "Unknown" ELSE probe

\* psutil.cpu_freq() returns None where the frequency cannot be determined,
\* and `psutil.cpu_freq().max` then raises AttributeError: nothing in
\* _hardware_census, run_full_diagnostic or initialize catches it
CensusRaises(s) == ~s.cpu_freq_available

\* _hardware_census: census_data for the sensors' answers s
hardware_census(s) ==
    [cpu_cores |-> s.cpu_cores, cpu_threads |-> s.cpu_threads, ram_gb |-> s.ram_gb,
     gpu_vram_gb |-> s.gpu_vram_gb,
     storage_tier |-> assess_storage_tier(s.storage_probe)]

\* `max_temp = initial_temp if initial_temp else 0`
InitialMax(initial) == IF Truthy(initial) THEN initial ELSE 0

\* `if current_temp and current_temp > max_temp: max_temp = current_temp`
UpdateMax(max, current) == IF Truthy(current) /\ current > max THEN current ELSE max

\* `if current_temp: temp_readings.append(current_temp)`
AppendReading(readings, current) ==
    IF Truthy(current) THEN Append(readings, current) ELSE readings

\* the if/elif chain with `<=` where the code has `<`
ThermalProfile_InclusiveBounds(delta) ==
    IF delta <= 10 THEN "Excellent"
    ELSE IF delta <= 20 THEN "Good"
    ELSE IF delta <= 30 THEN "Balanced"
    ELSE "Limited"

\* the if/elif chain over thermal_data['temp_delta']
ThermalProfile(delta) ==
    IF delta < 10 THEN "Excellent"
    ELSE IF delta < 20 THEN "Good"
    ELSE IF delta < 30 THEN "Balanced"
    ELSE "Limited"

\* thermal_data as _thermal_characterization fills it after the polling loop
ThermalResult(initial, max, readings) ==
    LET delta == max - (IF Truthy(initial) THEN initial ELSE 0)
    IN  [initial_temp |-> initial, max_temp |-> max, temp_delta |-> delta,
         temp_readings |-> readings, thermal_profile |-> ThermalProfile(delta)]

Max(a, b) == IF a >= b THEN a ELSE b
Min(a, b) == IF a <= b THEN a ELSE b

\* _calculate_overall_score without the min/max of its return statement
calculate_overall_score_Unclamped(latency, memory_pressure, parallel_time) ==
    4 * (IF 1000 - latency > 0 THEN 1000 - latency ELSE 0)
      + 3 * (IF 1000 - memory_pressure > 0 THEN 1000 - memory_pressure ELSE 0)
      + 3 * (IF 1000 - 10 * parallel_time > 0 THEN 1000 - 10 * parallel_time ELSE 0)

\* _calculate_overall_score, in hundredths of a point; latency in ms,
\* memory_pressure in MB, parallel_time in ms (the code has it in seconds
\* and multiplies by 1000)
calculate_overall_score(latency, memory_pressure, parallel_time) ==
    LET latency_score  == Max(0, 1000 - latency)              \* tenths
        memory_score   == Max(0, 1000 - memory_pressure)      \* tenths
        parallel_score == Max(0, 1000 - 10 * parallel_time)   \* tenths
        overall_score  == 4 * latency_score + 3 * memory_score + 3 * parallel_score
    IN  Min(10000, Max(0, overall_score))

\* _baseline_ai_benchmarking: benchmark_data for the three measurements b
baseline_ai_benchmarking(b) ==
    [latency_ms_per_token |-> b[1], memory_pressure_mb |-> b[2],
     parallel_performance |-> b[3],
     overall_score |-> calculate_overall_score(b[1], b[2], b[3])]

\* _create_capability_vector (benchmark_data is passed and not used)
create_capability_vector(h, t, b) ==
    [cpu_cores |-> h.cpu_cores, cpu_threads |-> h.cpu_threads, ram_gb |-> h.ram_gb,
     gpu_vram_gb |-> h.gpu_vram_gb, storage_tier |-> h.storage_tier,
     thermal_profile |-> t.thermal_profile]

\* the polling loop run over the readings `reads`, from the state (max, readings)
RECURSIVE PollAll(_, _, _)
PollAll(reads, max, readings) ==
    IF reads = <<>> THEN <<max, readings>>
    ELSE PollAll(Tail(reads), UpdateMax(max, Head(reads)),
                 AppendReading(readings, Head(reads)))

\* _thermal_characterization for an initial reading and the loop's readings
thermal_characterization(initial, reads) ==
    LET r == PollAll(reads, InitialMax(initial), <<>>)
    IN  ThermalResult(initial, r[1], r[2])

\* run_full_diagnostic for one set of sensor answers: the vector it returns,
\* or NoVector when the census raises
run_full_diagnostic(in) ==
    IF CensusRaises(in.sensors) THEN NoVector
    ELSE create_capability_vector(hardware_census(in.sensors),
                                  thermal_characterization(in.initial, in.reads),
                                  baseline_ai_benchmarking(in.bench))

(***************************************************************************)
(* Inputs: what the environment (sensors, the caller) may supply.          *)
(***************************************************************************)
\* one HardwareCapabilityVector; the fields no code of the core reads
\* (architecture, cpu_speed, gpu_name, special_instructions) are left out
Vector(cores, threads, ram, vram, storage, thermal) ==
    [cpu_cores |-> cores, cpu_threads |-> threads, ram_gb |-> ram,
     gpu_vram_gb |-> vram, storage_tier |-> storage, thermal_profile |-> thermal]

\* RAM sizes (hundredths of a GB) handed to the recommendation engine:
\* below the smallest requirement, on each requirement, and between them
RamValues == {25, 50, 119, 120, 400, 650, 1600, 3200, 6400}

\* VRAM sizes: absent, zero, and both sides of the 0.7 * 6.5 = 4.55 and
\* 0.7 * 32 = 22.4 offload budgets
VramValues == {NoneVal, 0, 400, 454, 455, 800, 2239, 2240}

RecVectors ==
    {Vector(8, 16, r, v, "Unknown", "Excellent") : r \in RamValues, v \in VramValues}

\* what _get_system_temperature may return: None, a reading below zero,
\* zero, a reading above zero
TempReads == {NoneVal, -5, 0, 40}

\* what the census probes may answer
Sensors ==
    [cpu_freq_available : BOOLEAN, cpu_cores : {8}, cpu_threads : {16},
     ram_gb : {1600}, gpu_vram_gb : {NoneVal, 400},
     storage_probe : {"Fast", "Slow", "fails"}]

\* (latency ms, memory pressure MB, parallel time ms) the benchmark may measure
BenchInputs == {<<100, 1, 50>>, <<2000, 0, 200>>}

\* iterations of the polling loop the model follows
MaxPolls == 2
\* iterations of the load generator's loop the model follows
WorkerSteps == 1
\* initialize() calls followed step by step
MaxDiagRuns == 1

\* sequences over S of length at most n
RECURSIVE SeqsUpTo(_, _)
SeqsUpTo(S, n) ==
    IF n = 0 THEN {<<>>}
    ELSE LET shorter == SeqsUpTo(S, n - 1)
         IN  shorter \cup {Append(q, x) : q \in shorter, x \in S}

\* everything one run of the diagnostic may be handed by its sensors
DiagInputs ==
    [sensors : Sensors, initial : TempReads, reads : SeqsUpTo(TempReads, MaxPolls),
     bench : BenchInputs]

\* initialize() calls followed in the session
MaxInits == 2
\* the rule list is followed up to this length before custom rules stop
MaxRules == 4

\* task types, as sequences of characters
TaskTypes ==
    { <<"w","r","i","t","i","n","g">>,
      <<"c","o","d","i","n","g">>,
      <<"C","o","d","e">>,
      <<"m","a","t","h">>,
      <<"v","i","s","i","o","n">>,
      <<"P","r","o","g","r","a","m","m","i","n","g">>,
      <<"C","A","L","C","U","L","A","T","E">>,
      <<"I","m","a","g","e">>,
      <<"m","a","t","h"," ","c","o","d","e">>,
      <<"V","i","s","i","o","n"," ","M","a","t","h">> }

\* model names a caller passes to load_model and unload_model: one of the
\* catalog, one the catalog does not hold
ModelNames == {"qwen2.5-0.5b-q4_k_m.gguf", "llama-3-8b.gguf"}

\* what a caller may pass to add_custom_orchestration_rule
RuleConditions == {"battery < 20%"}
RuleActions == {"use Qwen2.5-0.5B"}
RulePriorities == {1, 5}

(***************************************************************************)
(* State after QwenNexus.__init__ (and HardwareProfiler.__init__,          *)
(* ModelManager.__init__).                                                 *)
(***************************************************************************)
\* threads that call add_orchestration_rule on the same manager
NumAdders == 2
Adders == 1..NumAdders

\* a thread that holds no rule dict
NoRule == [none |-> TRUE]

NoCall == [op |-> "none", outcome |-> "none", model |-> ""]

InitThermal ==
    /\ initial_temp = NoneVal
    /\ max_temp = 0
    /\ temp_readings = <<>>
    /\ worker = "unstarted"
    /\ work_left = 0
    /\ polls = 0
    /\ samples = <<>>

InitDiag ==
    /\ profiler_vector = NoVector
    /\ hardware_data = NoData
    /\ thermal_data = NoData
    /\ benchmark_data = NoData
    /\ trace = <<>>

Init ==
    /\ initialized = FALSE
    /\ capability_vector = NoVector
    /\ trust_store = {}
    /\ orchestration_rules = <<>>
    /\ pc = "idle"
    /\ has_callback = FALSE
    /\ inits = 0
    /\ InitDiag
    /\ InitThermal
    /\ suitable_models = <<>>
    /\ recommendations = NoData
    /\ last_call = NoCall
    /\ catalog = model_catalog
    /\ active_models = {}
    /\ rec_vector = NoVector
    /\ adders = [t \in Adders |-> [pc |-> "idle", rule |-> NoRule, done |-> 0]]

(***************************************************************************)
(* QwenNexus.get_model_recommendations.                                    *)
(***************************************************************************)
\* `if not self.capability_vector: return {}`
GetModelRecommendationsEarly ==
    /\ pc = "idle"
    /\ capability_vector = NoVector
    /\ recommendations' = EmptyDict
    /\ last_call' = [op |-> "get_model_recommendations", outcome |-> "returned", model |-> ""]
    /\ UNCHANGED <<managerVars, sessionVars, diagVars, thermalVars, pc, has_callback, inits,
                   suitable_models, rec_vector>>

\* `return self.model_manager.get_model_recommendations(self.capability_vector)`
GetModelRecommendations ==
    /\ pc = "idle"
    /\ capability_vector # NoVector
    /\ suitable_models' = RankedSuitable(capability_vector)
    /\ rec_vector' = capability_vector
    /\ catalog' = CatalogAfterRecommendation(catalog)
    /\ recommendations' = get_model_recommendations(capability_vector)
    /\ last_call' = [op |-> "get_model_recommendations", outcome |-> "returned", model |-> ""]
    /\ UNCHANGED <<active_models, adders, sessionVars, diagVars, thermalVars, pc, has_callback, inits>>

(***************************************************************************)
(* The recommendation engine as a function of the vector: every vector of  *)
(* RecVectors, as if a diagnostic had assembled it.                        *)
(***************************************************************************)
InitRec ==
    /\ initialized = FALSE
    /\ capability_vector \in RecVectors
    /\ trust_store = {}
    /\ orchestration_rules = <<>>
    /\ pc = "idle"
    /\ has_callback = FALSE
    /\ inits = 0
    /\ InitDiag
    /\ InitThermal
    /\ suitable_models = <<>>
    /\ recommendations = NoData
    /\ last_call = NoCall
    /\ catalog = model_catalog
    /\ active_models = {}
    /\ rec_vector = NoVector
    /\ adders = [t \in Adders |-> [pc |-> "idle", rule |-> NoRule, done |-> 0]]

NextRec == GetModelRecommendations

SpecRec == InitRec /\ [][NextRec]_vars

(***************************************************************************)
(* Claims about the recommendation engine (checked under SpecRec).         *)
(***************************************************************************)
\* the suitability rule as the design states it
StatedSuitable(D, V) ==
    /\ D.ram_requirement_gb <= V.ram_gb
    /\ \/ D.size \notin {"7B", "32B"}
       \/ V.gpu_vram_gb # NoneVal /\ 7 * D.ram_requirement_gb <= 10 * V.gpu_vram_gb

Recommended == recommendations \notin {NoData, EmptyDict}

\* C9: once recommendations have been computed for the vector V, a catalog
\* descriptor D was kept by the filter if and only if D.ram_requirement_gb <=
\* V.ram_gb and (D.size is not 7B/32B, or V.gpu_vram_gb is present and
\* D.ram_requirement_gb * 0.7 <= V.gpu_vram_gb); the primary model and every
\* alternative model belong to that set.
C9_SuitableIffStated ==
    Recommended =>
        LET V == capability_vector
            stated == {model_catalog[i] : i \in {j \in 1..Len(model_catalog) :
                                            StatedSuitable(model_catalog[j], V)}}
        IN  /\ Range(suitable_models) = stated
            /\ recommendations.primary_model # NoModel
                 => recommendations.primary_model \in stated
            /\ Range(recommendations.alternative_models) \subseteq stated
            /\ recommendations.primary_model = NoModel => stated = {}

\* C9 witness: a vector with a GPU whose offload budget admits the 7B
\* descriptors and rejects the 32B descriptor that would fit in RAM.
C9_Witness ==
    /\ Recommended
    /\ capability_vector.gpu_vram_gb # NoneVal
    /\ capability_vector.ram_gb >= 3200
    /\ recommendations.primary_model # NoModel
    /\ recommendations.primary_model.size = "7B"
    /\ \A i \in 1..Len(suitable_models) : suitable_models[i].size # "32B"

\* C10: the suitable descriptors are ranked by ram_requirement_gb descending,
\* equal requirements in catalog order; the primary model is the first of the
\* ranking, the alternatives are the next descriptors of the ranking, three at
\* most, and the primary is not among them.
C10_RankedPrimaryAlternatives ==
    Recommended =>
        LET sm == suitable_models
            alts == recommendations.alternative_models
            n == Len(sm)
        IN  /\ Cardinality(Range(sm)) = n
            /\ \A i \in 1..n : \A j \in (i + 1)..n :
                  \/ sm[i].ram_requirement_gb > sm[j].ram_requirement_gb
                  \/ /\ sm[i].ram_requirement_gb = sm[j].ram_requirement_gb
                     /\ CatalogIndex(sm[i]) < CatalogIndex(sm[j])
            /\ n > 0 => recommendations.primary_model = sm[1]
            /\ Len(alts) = (IF n > 4 THEN 3 ELSE IF n > 0 THEN n - 1 ELSE 0)
            /\ \A k \in 1..Len(alts) : alts[k] = sm[k + 1]
            /\ recommendations.primary_model \notin Range(alts)

\* C10 witness: more than four suitable descriptors with ties among them, so
\* the alternatives are cut at three and the tie order shows.
C10_Witness ==
    /\ Recommended
    /\ Len(suitable_models) > 4
    /\ Len(recommendations.alternative_models) = 3
    /\ recommendations.primary_model.name = "qwen2.5-7b-q6_k.gguf"
    /\ recommendations.alternative_models[1].name = "qwen2.5-coder-7b-q6_k.gguf"

\* the smallest ram_requirement_gb of the catalog
MinCatalogRam ==
    CHOOSE r \in {model_catalog[i].ram_requirement_gb : i \in 1..Len(model_catalog)} :
        \A i \in 1..Len(model_catalog) : r <= model_catalog[i].ram_requirement_gb

EmptyRecommendation ==
    /\ recommendations.primary_model = NoModel
    /\ recommendations.alternative_models = <<>>
    /\ recommendations.profiles = EmptyDict

\* C11: when no catalog descriptor is suitable for the vector V, and in
\* particular whenever V.ram_gb is below the smallest ram_requirement_gb of the
\* catalog, get_model_recommendations returns normally with the primary model
\* absent, no alternatives and no profiles.
C11_NoneSuitableIsEmptyResult ==
    Recommended =>
        LET V == capability_vector
        IN  /\ last_call.outcome = "returned"
            /\ (\A i \in 1..Len(model_catalog) : ~StatedSuitable(model_catalog[i], V))
                 => EmptyRecommendation
            /\ V.ram_gb < MinCatalogRam => EmptyRecommendation

\* C11 witness: a vector with less RAM than any descriptor asks for, a GPU
\* present, and the empty result returned.
C11_Witness ==
    /\ Recommended
    /\ capability_vector.ram_gb < MinCatalogRam
    /\ capability_vector.gpu_vram_gb >= 400
    /\ last_call.outcome = "returned"
    /\ EmptyRecommendation

\* the vector {ram_gb: 16, gpu_vram_gb: 4, cpu_cores: 8}
ReferenceVector ==
    /\ capability_vector.ram_gb = 1600
    /\ capability_vector.gpu_vram_gb = 400
    /\ capability_vector.cpu_cores = 8

\* C12: for the vector {ram_gb: 16, gpu_vram_gb: 4, cpu_cores: 8} and the
\* reference catalog, the primary model of the recommendation is the 7B/Q6_K
\* descriptor.
C12_ReferenceVectorGets7B ==
    Recommended /\ ReferenceVector =>
        /\ recommendations.primary_model # NoModel
        /\ recommendations.primary_model.size = "7B"
        /\ recommendations.primary_model.quantization = "Q6_K"

\* C13: whenever profiles are generated, gpu_layers of the Balanced Daily
\* Driver profile is 20 if V.gpu_vram_gb is present and at least 4 GB, and 0
\* otherwise; for {ram_gb: 16, gpu_vram_gb: 4, cpu_cores: 8} profiles are
\* generated and it is 20.
C13_BalancedGpuLayers ==
    Recommended =>
        LET V == capability_vector
            profiles == recommendations.profiles
        IN  /\ profiles # EmptyDict =>
                 profiles.balanced_daily_driver.gpu_layers =
                     (IF V.gpu_vram_gb # NoneVal /\ V.gpu_vram_gb >= 400 THEN 20 ELSE 0)
            /\ ReferenceVector =>
                 /\ profiles # EmptyDict
                 /\ profiles.balanced_daily_driver.gpu_layers = 20

\* C13 witness: the profiles of the vector with exactly 4 GB of VRAM.
C13_Witness ==
    /\ Recommended
    /\ ReferenceVector
    /\ recommendations.profiles # EmptyDict
    /\ recommendations.profiles.balanced_daily_driver.gpu_layers = 20

\* the vector {ram_gb: 4, gpu_vram_gb: absent}
LowEndVector ==
    /\ capability_vector.ram_gb = 400
    /\ capability_vector.gpu_vram_gb = NoneVal

\* C14: for the vector {ram_gb: 4, gpu_vram_gb: absent} and the reference
\* catalog, no 7B or 32B descriptor is suitable, the primary model is a
\* descriptor of a size class of at most 2B, and gpu_layers of the Speed Demon
\* profile is 0.
C14_LowEndVector ==
    Recommended /\ LowEndVector =>
        /\ \A i \in 1..Len(suitable_models) : suitable_models[i].size \notin {"7B", "32B"}
        /\ recommendations.primary_model # NoModel
        /\ recommendations.primary_model.size \in {"0.5B", "1.5B", "2B"}
        /\ recommendations.profiles # EmptyDict
        /\ recommendations.profiles.speed_demon.gpu_layers = 0

\* C14 witness: the recommendation for that vector, led by the 2B descriptor.
C14_Witness ==
    /\ Recommended
    /\ LowEndVector
    /\ recommendations.primary_model # NoModel
    /\ recommendations.primary_model.size = "2B"
    /\ recommendations.profiles.speed_demon.gpu_layers = 0

(***************************************************************************)
(* QwenNexus.initialize, step by step: run_full_diagnostic with its three  *)
(* stages and progress callbacks, the load generator thread of the thermal *)
(* stage, then the recommendation, the trust store and the default rules.  *)
(***************************************************************************)
Event(ev, stage, percent) == [ev |-> ev, stage |-> stage, percent |-> percent]

\* the percent run_full_diagnostic passes to progress_callback at each place
ProgressPercent_Repeated(p) ==
    CASE p = "cb30" -> 30
      [] p = "cb60" -> 30
      [] p = "cb90" -> 90

ProgressPercent(p) ==
    CASE p = "cb30" -> 30
      [] p = "cb60" -> 60
      [] p = "cb90" -> 90

\* the stage the callback at place p reports
CallbackStage(p) ==
    CASE p = "cb30" -> "Census"
      [] p = "cb60" -> "ThermalCharacterization"
      [] p = "cb90" -> "Benchmark"

\* the statement order of run_full_diagnostic with the thermal stage run again
\* after the benchmark
StageAfter_Rollback(p, cb) ==
    CASE p = "census"    -> IF cb THEN "cb30" ELSE "thermal"
      [] p = "cb30"      -> "thermal"
      [] p = "thermal"   -> IF cb THEN "cb60" ELSE "benchmark"
      [] p = "cb60"      -> "benchmark"
      [] p = "benchmark" -> IF benchmark_data = NoData THEN "thermal"
                            ELSE IF cb THEN "cb90" ELSE "assemble"
      [] p = "cb90"      -> "assemble"

\* the statement order of run_full_diagnostic: where the caller's thread
\* goes after place p (`if progress_callback:` guards each callback)
StageAfter(p, cb) ==
    CASE p = "census"    -> IF cb THEN "cb30" ELSE "thermal"
      [] p = "cb30"      -> "thermal"
      [] p = "thermal"   -> IF cb THEN "cb60" ELSE "benchmark"
      [] p = "cb60"      -> "benchmark"
      [] p = "benchmark" -> IF cb THEN "cb90" ELSE "assemble"
      [] p = "cb90"      -> "assemble"

\* the polling loop leaves after its first iteration
LoopContinues_OnePoll == worker = "alive" /\ polls < 1

\* `while load_test_thread.is_alive():`
LoopContinues == worker = "alive"

\* the three add_orchestration_rule calls of _setup_default_orchestration_rules
Rule(condition, action, priority, id) ==
    [condition |-> condition, action |-> action, priority |-> priority, id |-> id]

\* add_orchestration_rule numbering the rules from 1
add_orchestration_rule_IdFromOne(rules, condition, action, priority) ==
    Append(rules, Rule(condition, action, priority, Len(rules) + 1))

\* ModelManager.add_orchestration_rule: id is the length of the list
add_orchestration_rule(rules, condition, action, priority) ==
    Append(rules, Rule(condition, action, priority, Len(rules)))

\* initialize() without its step 4
setup_default_orchestration_rules_Skipped(rules) == rules

setup_default_orchestration_rules(rules) ==
    add_orchestration_rule(
        add_orchestration_rule(
            add_orchestration_rule(rules,
                "user_action == 'writing_email'", "use Qwen2.5-7B", 1),
            "user_action == 'debugging_python'", "use Qwen2.5-Coder-7B", 1),
        "query_complexity == 'high' AND battery > 50%", "use Qwen2.5-32B", 2)

\* _setup_recommended_config: the primary model's name joins the trust store
setup_recommended_config(store, recs) ==
    IF recs.primary_model # NoModel THEN store \cup {recs.primary_model.name} ELSE store

\* initialize() is entered; run_full_diagnostic starts with fresh locals
StartInitialize(cb) ==
    /\ pc = "idle"
    /\ inits < MaxDiagRuns
    /\ pc' = "census"
    /\ has_callback' = cb
    /\ inits' = inits + 1
    /\ trace' = <<>>
    /\ hardware_data' = NoData /\ thermal_data' = NoData /\ benchmark_data' = NoData
    /\ initial_temp' = NoneVal /\ max_temp' = 0 /\ temp_readings' = <<>>
    /\ worker' = "unstarted" /\ work_left' = 0 /\ polls' = 0 /\ samples' = <<>>
    /\ last_call' = [op |-> "initialize", outcome |-> "running", model |-> ""]
    /\ UNCHANGED <<managerVars, sessionVars, profiler_vector, recVars>>

\* Stage 1: _hardware_census returns
Census(s) ==
    /\ pc = "census"
    /\ ~CensusRaises(s)
    /\ hardware_data' = hardware_census(s)
    /\ trace' = trace \o <<Event("enter", "Census", NoneVal), Event("exit", "Census", NoneVal)>>
    /\ pc' = StageAfter("census", has_callback)
    /\ UNCHANGED <<managerVars, sessionVars, thermalVars, recVars, profiler_vector, thermal_data,
                   benchmark_data, has_callback, inits, last_call>>

\* Stage 1: _hardware_census raises, and the error leaves initialize()
CensusFails(s) ==
    /\ pc = "census"
    /\ CensusRaises(s)
    /\ trace' = Append(trace, Event("enter", "Census", NoneVal))
    /\ pc' = "idle"
    /\ last_call' = [op |-> "initialize", outcome |-> "AttributeError", model |-> ""]
    /\ UNCHANGED <<managerVars, sessionVars, thermalVars, recVars, profiler_vector, hardware_data,
                   thermal_data, benchmark_data, has_callback, inits>>

\* progress_callback(percent, message)
ProgressCallback ==
    /\ pc \in {"cb30", "cb60", "cb90"}
    /\ trace' = Append(trace, Event("callback", CallbackStage(pc), ProgressPercent(pc)))
    /\ pc' = StageAfter(pc, has_callback)
    /\ UNCHANGED <<managerVars, sessionVars, thermalVars, recVars, profiler_vector, hardware_data,
                   thermal_data, benchmark_data, has_callback, inits, last_call>>

\* Stage 2 begins: the initial reading, the thread is started, max_temp is set
ThermalStart(t) ==
    /\ pc = "thermal"
    /\ initial_temp' = t
    /\ worker' = "alive"
    /\ work_left' = WorkerSteps
    /\ max_temp' = InitialMax(t)
    /\ temp_readings' = <<>>
    /\ polls' = 0
    /\ samples' = <<>>
    /\ trace' = Append(trace, Event("enter", "ThermalCharacterization", NoneVal))
    /\ pc' = "t_check"
    /\ UNCHANGED <<managerVars, sessionVars, recVars, profiler_vector, hardware_data, thermal_data,
                   benchmark_data, has_callback, inits, last_call>>

\* _cpu_load_test: one iteration of its loop
WorkerStep ==
    /\ worker = "alive"
    /\ work_left > 0
    /\ work_left' = work_left - 1
    /\ UNCHANGED <<managerVars, sessionVars, recVars, diagVars, pc, has_callback, inits, last_call,
                   initial_temp, max_temp, temp_readings, worker, polls, samples>>

\* _cpu_load_test returns: the thread is no longer alive
WorkerExit ==
    /\ worker = "alive"
    /\ work_left = 0
    /\ worker' = "dead"
    /\ UNCHANGED <<managerVars, sessionVars, recVars, diagVars, pc, has_callback, inits, last_call,
                   initial_temp, max_temp, temp_readings, work_left, polls, samples>>

\* the loop condition is found true: the body is entered
ThermalLoopEnter ==
    /\ pc = "t_check"
    /\ LoopContinues
    /\ polls < MaxPolls
    /\ pc' = "t_body"
    /\ UNCHANGED <<managerVars, sessionVars, recVars, diagVars, thermalVars, has_callback, inits,
                   last_call>>

\* the loop body: one reading, then time.sleep(1)
ThermalPoll(t) ==
    /\ pc = "t_body"
    /\ max_temp' = UpdateMax(max_temp, t)
    /\ temp_readings' = AppendReading(temp_readings, t)
    /\ samples' = IF t # NoneVal
                    THEN Append(samples, [temp |-> t, during_load |-> worker = "alive"])
                    ELSE samples
    /\ polls' = polls + 1
    /\ pc' = "t_check"
    /\ UNCHANGED <<managerVars, sessionVars, recVars, diagVars, has_callback, inits, last_call,
                   initial_temp, worker, work_left>>

\* the loop condition is found false: thermal_data is filled and returned
ThermalReturn ==
    /\ pc = "t_check"
    /\ ~LoopContinues
    /\ thermal_data' = ThermalResult(initial_temp, max_temp, temp_readings)
    /\ trace' = Append(trace, Event("exit", "ThermalCharacterization", NoneVal))
    /\ pc' = StageAfter("thermal", has_callback)
    /\ UNCHANGED <<managerVars, sessionVars, thermalVars, recVars, profiler_vector, hardware_data,
                   benchmark_data, has_callback, inits, last_call>>

\* Stage 3: _baseline_ai_benchmarking
Benchmark(b) ==
    /\ pc = "benchmark"
    /\ benchmark_data' = baseline_ai_benchmarking(b)
    /\ trace' = trace \o <<Event("enter", "Benchmark", NoneVal),
                           Event("exit", "Benchmark", NoneVal)>>
    /\ pc' = StageAfter("benchmark", has_callback)
    /\ UNCHANGED <<managerVars, sessionVars, thermalVars, recVars, profiler_vector, hardware_data,
                   thermal_data, has_callback, inits, last_call>>

\* _create_capability_vector; run_full_diagnostic returns the vector and
\* initialize() stores it
Assemble ==
    /\ pc = "assemble"
    /\ LET v == create_capability_vector(hardware_data, thermal_data, benchmark_data)
       IN  /\ profiler_vector' = v
           /\ capability_vector' = v
    /\ trace' = Append(trace, Event("enter", "Assembled", NoneVal))
    /\ pc' = "recommend"
    /\ UNCHANGED <<managerVars, initialized, trust_store, orchestration_rules, thermalVars, recVars,
                   hardware_data, thermal_data, benchmark_data, has_callback, inits,
                   last_call>>

\* steps 2 to 4 of initialize() and `self.initialized = True`
FinishInitialize ==
    /\ pc = "recommend"
    /\ suitable_models' = RankedSuitable(capability_vector)
    /\ rec_vector' = capability_vector
    /\ catalog' = CatalogAfterRecommendation(catalog)
    /\ recommendations' = get_model_recommendations(capability_vector)
    /\ trust_store' = setup_recommended_config(trust_store, recommendations')
    /\ orchestration_rules' = setup_default_orchestration_rules(orchestration_rules)
    /\ initialized' = TRUE
    /\ pc' = "idle"
    /\ last_call' = [op |-> "initialize", outcome |-> "returned", model |-> ""]
    /\ UNCHANGED <<active_models, adders, capability_vector, diagVars, thermalVars, has_callback, inits>>

NextDiag ==
    \/ \E cb \in BOOLEAN : StartInitialize(cb)
    \/ \E s \in Sensors : Census(s)
    \/ \E s \in Sensors : CensusFails(s)
    \/ ProgressCallback
    \/ \E t \in TempReads : ThermalStart(t)
    \/ WorkerStep
    \/ WorkerExit
    \/ ThermalLoopEnter
    \/ \E t \in TempReads : ThermalPoll(t)
    \/ ThermalReturn
    \/ \E b \in BenchInputs : Benchmark(b)
    \/ Assemble
    \/ FinishInitialize

SpecDiag == Init /\ [][NextDiag]_vars

(***************************************************************************)
(* add_orchestration_rule called from several threads. The method takes no *)
(* lock: building the dict (which reads len(self.orchestration_rules)) and *)
(* list.append are separate steps, and another thread can run between      *)
(* them. list.append itself is atomic.                                     *)
(***************************************************************************)
\* `rule = {..., 'id': len(self.orchestration_rules)}`
AddRuleBuild(t, condition, action, priority) ==
    /\ pc = "idle"
    /\ adders[t].pc = "idle"
    /\ Len(orchestration_rules)
          + Cardinality({u \in Adders : adders[u].pc = "built"}) < MaxRules
    /\ adders' = [adders EXCEPT ![t].pc = "built",
                                ![t].rule = Rule(condition, action, priority,
                                                 Len(orchestration_rules))]
    /\ UNCHANGED <<catalog, active_models, sessionVars, diagVars, thermalVars, recVars,
                   pc, has_callback, inits, last_call>>

\* `self.orchestration_rules.append(rule)`, and the method returns
AddRuleAppend(t) ==
    /\ adders[t].pc = "built"
    /\ orchestration_rules' = Append(orchestration_rules, adders[t].rule)
    /\ adders' = [adders EXCEPT ![t].pc = "idle", ![t].rule = NoRule,
                                ![t].done = adders[t].done + 1]
    /\ UNCHANGED <<catalog, active_models, initialized, capability_vector, trust_store,
                   diagVars, thermalVars, recVars, pc, has_callback, inits, last_call>>

NextConc ==
    \/ \E t \in Adders, c \in RuleConditions, a \in RuleActions, p \in RulePriorities :
          AddRuleBuild(t, c, a, p)
    \/ \E t \in Adders : AddRuleAppend(t)

SpecConc == Init /\ [][NextConc]_vars

(***************************************************************************)
(* The thermal stage over a range of temperatures that puts temp_delta on  *)
(* both sides of each threshold: one diagnostic run, up to the return of   *)
(* _thermal_characterization.                                              *)
(***************************************************************************)
StageSensors ==
    {s \in Sensors : s.cpu_freq_available /\ s.gpu_vram_gb = NoneVal
                        /\ s.storage_probe = "Fast"}

\* what _get_system_temperature returns before the load starts
ThermalInitials == {NoneVal, 40}

\* what it returns inside the polling loop
ThermalReads == {NoneVal, 9, 10, 49, 50, 59, 60, 69, 70}

NextThermal ==
    \/ StartInitialize(FALSE)
    \/ \E s \in StageSensors : Census(s)
    \/ \E t \in ThermalInitials : ThermalStart(t)
    \/ WorkerStep
    \/ WorkerExit
    \/ ThermalLoopEnter
    \/ \E t \in ThermalReads : ThermalPoll(t)
    \/ ThermalReturn

SpecThermal == Init /\ [][NextThermal]_vars

(***************************************************************************)
(* The benchmark stage over measurements of every sign and size: one       *)
(* diagnostic run without a temperature source, up to the return of        *)
(* _baseline_ai_benchmarking. time.time() differences and RSS differences  *)
(* can be negative.                                                        *)
(***************************************************************************)
ScoreLatencies == {-5000, -10, 0, 100, 500, 1000, 20000}
ScoreMemory    == {-2000, 0, 1, 500, 3000}
ScoreParallel  == {-100, 0, 50, 100, 500}

ScoreInputs == {<<l, m, p>> : l \in ScoreLatencies, m \in ScoreMemory, p \in ScoreParallel}

NextScore ==
    \/ StartInitialize(FALSE)
    \/ \E s \in StageSensors : Census(s)
    \/ ThermalStart(NoneVal)
    \/ WorkerStep
    \/ WorkerExit
    \/ ThermalLoopEnter
    \/ ThermalPoll(NoneVal)
    \/ ThermalReturn
    \/ \E b \in ScoreInputs : Benchmark(b)

SpecScore == Init /\ [][NextScore]_vars

(***************************************************************************)
(* The session: QwenNexus's methods, each called when no other call is     *)
(* running. initialize() is taken as one step here; its diagnostic is      *)
(* followed step by step under SpecDiag.                                   *)
(***************************************************************************)
\* str.lower() over the characters the task types use
LowerChar(c) ==
    CASE c = "A" -> "a"
      [] c = "C" -> "c"
      [] c = "E" -> "e"
      [] c = "I" -> "i"
      [] c = "L" -> "l"
      [] c = "M" -> "m"
      [] c = "P" -> "p"
      [] c = "T" -> "t"
      [] c = "U" -> "u"
      [] c = "V" -> "v"
      [] OTHER   -> c

Lower(str) == [i \in 1..Len(str) |-> LowerChar(str[i])]

\* Python's `sub in str`
Contains(str, sub) ==
    \E i \in 0..(Len(str) - Len(sub)) : SubSeq(str, i + 1, i + Len(sub)) = sub

\* _select_model_for_task without the .lower() calls
select_model_for_task_CaseSensitive(task_type) ==
    LET t == task_type
    IN  IF Contains(t, <<"c","o","d","e">>)
           \/ Contains(t, <<"p","r","o","g","r","a","m","m","i","n","g">>)
          THEN "qwen2.5-coder-7b-q6_k.gguf"
        ELSE IF Contains(t, <<"m","a","t","h">>)
                \/ Contains(t, <<"c","a","l","c","u","l","a","t","e">>)
          THEN "qwen2.5-math-7b-q6_k.gguf"
        ELSE IF Contains(t, <<"i","m","a","g","e">>)
                \/ Contains(t, <<"v","i","s","i","o","n">>)
          THEN "qwen2.5-vl-2b-q4_k_m.gguf"
        ELSE "qwen2.5-7b-q6_k.gguf"

\* _select_model_for_task consulting the rule list before the keywords
select_model_for_task_RulesFirst(task_type) ==
    LET t == Lower(task_type)
    IN  IF \E i \in 1..Len(orchestration_rules) :
               orchestration_rules[i].action = "use Qwen2.5-0.5B"
          THEN "qwen2.5-0.5b-q4_k_m.gguf"
        ELSE IF Contains(t, <<"c","o","d","e">>)
                \/ Contains(t, <<"p","r","o","g","r","a","m","m","i","n","g">>)
          THEN "qwen2.5-coder-7b-q6_k.gguf"
        ELSE IF Contains(t, <<"m","a","t","h">>)
                \/ Contains(t, <<"c","a","l","c","u","l","a","t","e">>)
          THEN "qwen2.5-math-7b-q6_k.gguf"
        ELSE IF Contains(t, <<"i","m","a","g","e">>)
                \/ Contains(t, <<"v","i","s","i","o","n">>)
          THEN "qwen2.5-vl-2b-q4_k_m.gguf"
        ELSE "qwen2.5-7b-q6_k.gguf"

\* _select_model_for_task
select_model_for_task(task_type) ==
    LET t == Lower(task_type)
    IN  IF Contains(t, <<"c","o","d","e">>)
           \/ Contains(t, <<"p","r","o","g","r","a","m","m","i","n","g">>)
          THEN "qwen2.5-coder-7b-q6_k.gguf"
        ELSE IF Contains(t, <<"m","a","t","h">>)
                \/ Contains(t, <<"c","a","l","c","u","l","a","t","e">>)
          THEN "qwen2.5-math-7b-q6_k.gguf"
        ELSE IF Contains(t, <<"i","m","a","g","e">>)
                \/ Contains(t, <<"v","i","s","i","o","n">>)
          THEN "qwen2.5-vl-2b-q4_k_m.gguf"
        ELSE "qwen2.5-7b-q6_k.gguf"

\* execute_task with the `if not self.initialized` check left out
execute_task_Unguarded(task_type) ==
    [op |-> "execute_task", outcome |-> "returned",
     model |-> select_model_for_task(task_type), task_type |-> task_type]

\* execute_task: how the call ends and the model it selected
execute_task(task_type) ==
    IF ~initialized
      THEN [op |-> "execute_task", outcome |-> "RuntimeError", model |-> "",
            task_type |-> task_type]
      ELSE [op |-> "execute_task", outcome |-> "returned",
            model |-> select_model_for_task(task_type), task_type |-> task_type]

ExecuteTask(task_type) ==
    /\ pc = "idle"
    /\ last_call' = execute_task(task_type)
    /\ UNCHANGED <<managerVars, sessionVars, diagVars, thermalVars, recVars, pc, has_callback, inits>>

\* the vectors run_full_diagnostic may return, and NoVector if it may raise;
\* no session operation reads storage_tier, so one answer of the storage
\* probe is followed here (SpecDiag follows them all)
DiagOutcomes ==
    {run_full_diagnostic(in) : in \in {d \in DiagInputs : d.sensors.storage_probe = "Fast"}}

\* initialize() returns True: the diagnostic assembled v
Initialize(v) ==
    /\ pc = "idle"
    /\ inits < MaxInits
    /\ v # NoVector
    /\ inits' = inits + 1
    /\ profiler_vector' = v
    /\ capability_vector' = v
    /\ suitable_models' = RankedSuitable(v)
    /\ rec_vector' = v
    /\ catalog' = CatalogAfterRecommendation(catalog)
    /\ recommendations' = get_model_recommendations(v)
    /\ trust_store' = setup_recommended_config(trust_store, recommendations')
    /\ orchestration_rules' = setup_default_orchestration_rules(orchestration_rules)
    /\ initialized' = TRUE
    /\ last_call' = [op |-> "initialize", outcome |-> "returned", model |-> ""]
    /\ UNCHANGED <<active_models, adders, thermalVars, hardware_data, thermal_data, benchmark_data, trace, pc,
                   has_callback>>

\* initialize() is left by the error the census raised
InitializeFails ==
    /\ pc = "idle"
    /\ inits < MaxInits
    /\ NoVector \in DiagOutcomes
    /\ inits' = inits + 1
    /\ last_call' = [op |-> "initialize", outcome |-> "AttributeError", model |-> ""]
    /\ UNCHANGED <<managerVars, sessionVars, diagVars, thermalVars, recVars, pc, has_callback>>

\* add_custom_orchestration_rule
AddCustomOrchestrationRule(condition, action, priority) ==
    /\ pc = "idle"
    /\ Len(orchestration_rules) < MaxRules
    /\ orchestration_rules' =
           add_orchestration_rule(orchestration_rules, condition, action, priority)
    /\ last_call' = [op |-> "add_custom_orchestration_rule", outcome |-> "returned",
                     model |-> ""]
    /\ UNCHANGED <<managerVars, initialized, capability_vector, trust_store, diagVars, thermalVars,
                   recVars, pc, has_callback, inits>>

\* get_model_by_name: the first descriptor of the catalog with that name
get_model_by_name(name) ==
    FirstWhere(catalog, {m \in Range(catalog) : m.name = name}, NoModel)

\* QwenNexus.load_model(model_name) without a config: configure_model raises
\* for a name the catalog does not hold; ModelManager.load_model returns False
\* if the file is not in models_dir (on_disk) and else records the model
LoadModel(name, on_disk) ==
    /\ pc = "idle"
    /\ IF get_model_by_name(name) = NoModel
         THEN /\ last_call' = [op |-> "load_model", outcome |-> "ValueError", model |-> name]
              /\ UNCHANGED active_models
         ELSE IF ~on_disk
           THEN /\ last_call' = [op |-> "load_model", outcome |-> "returned False",
                                 model |-> name]
                /\ UNCHANGED active_models
           ELSE /\ last_call' = [op |-> "load_model", outcome |-> "returned True",
                                 model |-> name]
                /\ active_models' = active_models \cup {name}
    /\ UNCHANGED <<catalog, adders, sessionVars, diagVars, thermalVars, recVars, pc, has_callback,
                   inits>>

\* ModelManager.unload_model
UnloadModel(name) ==
    /\ pc = "idle"
    /\ active_models' = active_models \ {name}
    /\ last_call' = [op |-> "unload_model",
                     outcome |-> IF name \in active_models THEN "returned True"
                                 ELSE "returned False",
                     model |-> name]
    /\ UNCHANGED <<catalog, adders, sessionVars, diagVars, thermalVars, recVars, pc, has_callback,
                   inits>>

Next ==
    \/ \E v \in DiagOutcomes : Initialize(v)
    \/ \E n \in ModelNames, d \in BOOLEAN : LoadModel(n, d)
    \/ \E n \in ModelNames : UnloadModel(n)
    \/ InitializeFails
    \/ \E t \in TaskTypes : ExecuteTask(t)
    \/ GetModelRecommendationsEarly
    \/ GetModelRecommendations
    \/ \E c \in RuleConditions, a \in RuleActions, p \in RulePriorities :
          AddCustomOrchestrationRule(c, a, p)

Spec == Init /\ [][Next]_vars

(***************************************************************************)
(* Claims about the session (checked under Spec).                          *)
(***************************************************************************)
\* C1: an execute_task call on a session whose initialized flag is false ends
\* in the RuntimeError, selects no model and leaves initialized, the
\* capability vector, the rule list and the trust store as they were; on a
\* session whose flag is true the call never ends in that error and selects
\* a model.
C1_ExecuteNeedsInitialized ==
    [][ last_call'.op = "execute_task" /\ ExecuteTask(last_call'.task_type) =>
            IF ~initialized
              THEN /\ last_call'.outcome = "RuntimeError"
                   /\ last_call'.model = ""
                   /\ UNCHANGED sessionVars
              ELSE /\ last_call'.outcome = "returned"
                   /\ last_call'.model # ""
                   /\ UNCHANGED sessionVars ]_vars

\* C1 witness: the error was raised on a session that is not initialized and
\* already holds a rule.
C1_Witness ==
    /\ ~initialized
    /\ last_call.op = "execute_task"
    /\ last_call.outcome = "RuntimeError"
    /\ orchestration_rules # <<>>

\* C2: a get_model_recommendations call made while the session has no
\* capability vector ends in an error raised to the caller, never in a
\* returned (empty) result.
C2_EarlyRecommendationIsAnError ==
    (last_call.op = "get_model_recommendations" /\ capability_vector = NoVector)
        => last_call.outcome # "returned"

(***************************************************************************)
(* Claims about the diagnostic (checked under SpecDiag).                   *)
(***************************************************************************)
ThermalReturned == thermal_data # NoData

\* no reading was available in the running thermal stage
NoTemperatureSource == initial_temp = NoneVal /\ samples = <<>>

\* C3: whenever _thermal_characterization has returned its result, the load
\* generator thread has completed.
C3_ReturnAfterWorker ==
    (ThermalReturned \/ pc \in {"cb60", "benchmark", "cb90", "assemble", "recommend"})
        => worker = "dead"

\* C3 witness: the stage has returned after at least one poll, every reading
\* of the run having been unavailable.
C3_Witness ==
    /\ ThermalReturned
    /\ worker = "dead"
    /\ polls > 0
    /\ NoTemperatureSource

\* C4: the max_temp returned by the thermal stage is at least every sample the
\* polling loop obtained while the load generator was still running.
C4_MaxCoversSamples ==
    ThermalReturned =>
        \A i \in 1..Len(samples) :
            samples[i].during_load => thermal_data.max_temp >= samples[i].temp

\* C5: when no temperature reading was available, the thermal stage returns
\* with max_temp 0 and temp_delta 0 and reports thermal_profile Unknown, and
\* the assembled vector carries Unknown.
C5_NoSourceReportsUnknown ==
    (ThermalReturned /\ NoTemperatureSource) =>
        /\ thermal_data.max_temp = 0
        /\ thermal_data.temp_delta = 0
        /\ thermal_data.thermal_profile = "Unknown"
        /\ pc = "recommend" => capability_vector.thermal_profile = "Unknown"

\* the stage events of the running diagnostic, callbacks left out
StageEvents ==
    LET ev == SelectSeq(trace, LAMBDA e : e.ev # "callback")
    IN  [i \in 1..Len(ev) |-> <<ev[i].ev, ev[i].stage>>]

StageOrder ==
    << <<"enter", "Census">>, <<"exit", "Census">>,
       <<"enter", "ThermalCharacterization">>, <<"exit", "ThermalCharacterization">>,
       <<"enter", "Benchmark">>, <<"exit", "Benchmark">>,
       <<"enter", "Assembled">> >>

IsPrefix(a, b) == Len(a) <= Len(b) /\ \A i \in 1..Len(a) : a[i] = b[i]

\* C6: the stage events of one diagnostic are a prefix of: Census entered and
\* left, ThermalCharacterization entered and left, Benchmark entered and left,
\* Assembled; so each stage is entered once, after the one before it was left,
\* and none again. When the vector has been assembled all of them happened.
C6_StagesInOrder ==
    /\ IsPrefix(StageEvents, StageOrder)
    /\ (pc = "recommend" \/ (inits > 0 /\ pc = "idle" /\ last_call.outcome = "returned"))
          => StageEvents = StageOrder

\* C6 witness: a diagnostic that went through all the stages.
C6_Witness == pc = "recommend" /\ StageEvents = StageOrder

Callbacks == SelectSeq(trace, LAMBDA e : e.ev = "callback")

TimedStages == {"Census", "ThermalCharacterization", "Benchmark"}

\* C7: with a progress callback, the event after each stage's end is the
\* callback for that stage (so it comes before the next stage starts), every
\* callback directly follows the end of its stage, every percent is one of
\* 0, 30, 60, 90, 100 and each percent is larger than the one before.
C7_ProgressCheckpoints ==
    has_callback =>
        /\ \A i \in 1..Len(trace) :
              (trace[i].ev = "exit" /\ trace[i].stage \in TimedStages /\ i < Len(trace))
                  => (trace[i + 1].ev = "callback" /\ trace[i + 1].stage = trace[i].stage)
        /\ \A i \in 1..Len(trace) :
              trace[i].ev = "callback"
                  => (i > 1 /\ trace[i - 1] = Event("exit", trace[i].stage, NoneVal))
        /\ \A i \in 1..Len(Callbacks) : Callbacks[i].percent \in {0, 30, 60, 90, 100}
        /\ \A i \in 1..Len(Callbacks) : \A j \in (i + 1)..Len(Callbacks) :
              Callbacks[i].percent < Callbacks[j].percent
        /\ pc = "recommend" => Len(Callbacks) = 3

\* C7 witness: a diagnostic with a callback that delivered all its percents.
C7_Witness == has_callback /\ pc = "recommend" /\ Len(Callbacks) = 3

\* C8: no initialize() / run_full_diagnostic call ends in an error, whatever
\* the sensors answer.
C8_NoSensorErrorPropagates ==
    last_call.op = "initialize" => last_call.outcome \in {"running", "returned"}

\* The step-by-step thermal stage returns what thermal_characterization
\* computes from the same readings.
StepwiseMatchesFunction ==
    ThermalReturned =>
        thermal_data = thermal_characterization(initial_temp,
                            [i \in 1..Len(samples) |-> samples[i].temp])

\* C15: a get_model_recommendations call for the vector the previous
\* recommendation was computed for returns the same primary model, the same
\* alternatives and the same profiles as that one, whatever rules were added,
\* tasks executed and models loaded or unloaded since; and no call changes
\* the content or the order of the catalog.
C15_RecommendationIdempotent ==
    [][ /\ catalog' = catalog
        /\ rec_vector = capability_vector /\ GetModelRecommendations =>
              /\ recommendations' = recommendations
              /\ suitable_models' = suitable_models ]_vars

\* C15 witness: the session was initialized (first recommendation), a custom
\* rule was added and a model loaded, and the last call was a
\* get_model_recommendations for the same vector.
C15_Witness ==
    /\ initialized
    /\ last_call.op = "get_model_recommendations"
    /\ rec_vector = capability_vector
    /\ Recommended
    /\ active_models # {}
    /\ \E i \in 1..Len(orchestration_rules) :
          orchestration_rules[i].condition \in RuleConditions

\* the thresholds as the design states them
StatedThermalProfile(delta) ==
    CASE delta < 10                -> "Excellent"
      [] 10 <= delta /\ delta < 20 -> "Good"
      [] 20 <= delta /\ delta < 30 -> "Balanced"
      [] delta >= 30               -> "Limited"

\* C16: the thermal profile the stage returns is determined by temp_delta
\* alone: Excellent below 10, Good from 10 and below 20, Balanced from 20 and
\* below 30, Limited from 30; so 9 gives Excellent, 10 Good, 29 Balanced and
\* 30 Limited.
C16_ThermalThresholds ==
    /\ ThermalReturned =>
          thermal_data.thermal_profile = StatedThermalProfile(thermal_data.temp_delta)
    /\ ThermalProfile(9) = "Excellent" /\ ThermalProfile(10) = "Good"
    /\ ThermalProfile(29) = "Balanced" /\ ThermalProfile(30) = "Limited"

\* C16 witness: a stage that returned with temp_delta exactly 10, from a
\* source that read 40 before the load and 50 under it.
C16_Witness ==
    /\ ThermalReturned
    /\ initial_temp = 40
    /\ thermal_data.temp_delta = 10
    /\ thermal_data.thermal_profile = "Good"

\* C17: the overall_score of the benchmark data lies between 0 and 100 (here
\* in hundredths of a point) for every latency, memory pressure and parallel
\* time, negative and very large ones included.
C17_ScoreInRange ==
    benchmark_data # NoData =>
        /\ benchmark_data.overall_score >= 0
        /\ benchmark_data.overall_score <= 10000

\* C17 witness: a negative latency, whose sub-score alone exceeds 100 points,
\* and the score returned is 100.
C17_Witness ==
    /\ benchmark_data # NoData
    /\ benchmark_data.latency_ms_per_token < 0
    /\ benchmark_data.memory_pressure_mb < 0
    /\ benchmark_data.overall_score = 10000

\* C18: the rule list is append-only. Every step keeps the rules it found,
\* unmodified and at their positions; each add_custom_orchestration_rule call
\* makes the list one longer and each initialize three longer (its three
\* add_orchestration_rule calls), nothing else changes its length; and the
\* rule at position i (counted from 0) carries id i, so ids are unique.
C18_RulesAppendOnly ==
    [][ /\ IsPrefix(orchestration_rules, orchestration_rules')
        /\ \A i \in 1..Len(orchestration_rules') : orchestration_rules'[i].id = i - 1
        /\ \A i, j \in 1..Len(orchestration_rules') :
              orchestration_rules'[i].id = orchestration_rules'[j].id => i = j
        /\ Len(orchestration_rules') =
              Len(orchestration_rules)
                + (IF last_call'.op = "add_custom_orchestration_rule" THEN 1
                   ELSE IF last_call'.op = "initialize"
                           /\ last_call'.outcome = "returned" THEN 3
                   ELSE 0) ]_vars

\* C18 witness: a custom rule added first, then two initializations, and the
\* seven rules all there with ids 0 to 6.
C18_Witness ==
    /\ Len(orchestration_rules) = 7
    /\ orchestration_rules[1].condition \in RuleConditions
    /\ orchestration_rules[1].id = 0
    /\ orchestration_rules[7].id = 6

RECURSIVE SumDone(_)
SumDone(T) ==
    IF T = {} THEN 0
    ELSE LET t == CHOOSE u \in T : TRUE IN adders[t].done + SumDone(T \ {t})

\* C19: with several threads calling add_orchestration_rule, reading the next
\* id and appending the rule are atomic with respect to the other adders: in
\* every interleaving the list holds one rule per completed call and no two
\* rules carry the same id.
C19_ConcurrentAddsAtomic ==
    /\ Len(orchestration_rules) = SumDone(Adders)
    /\ \A i, j \in 1..Len(orchestration_rules) :
          orchestration_rules[i].id = orchestration_rules[j].id => i = j

\* the keyword occurs in the task type, letter case aside
Mentions(task_type, keyword) ==
    \E i \in 1..Len(task_type) :
        /\ i + Len(keyword) - 1 <= Len(task_type)
        /\ \A k \in 1..Len(keyword) : LowerChar(task_type[i + k - 1]) = keyword[k]

\* the selection as the design states it
StatedModelForTask(task_type) ==
    CASE Mentions(task_type, <<"c","o","d","e">>)
           \/ Mentions(task_type, <<"p","r","o","g","r","a","m","m","i","n","g">>)
              -> "qwen2.5-coder-7b-q6_k.gguf"
      [] /\ ~Mentions(task_type, <<"c","o","d","e">>)
         /\ ~Mentions(task_type, <<"p","r","o","g","r","a","m","m","i","n","g">>)
         /\ \/ Mentions(task_type, <<"m","a","t","h">>)
            \/ Mentions(task_type, <<"c","a","l","c","u","l","a","t","e">>)
              -> "qwen2.5-math-7b-q6_k.gguf"
      [] /\ ~Mentions(task_type, <<"c","o","d","e">>)
         /\ ~Mentions(task_type, <<"p","r","o","g","r","a","m","m","i","n","g">>)
         /\ ~Mentions(task_type, <<"m","a","t","h">>)
         /\ ~Mentions(task_type, <<"c","a","l","c","u","l","a","t","e">>)
         /\ \/ Mentions(task_type, <<"i","m","a","g","e">>)
            \/ Mentions(task_type, <<"v","i","s","i","o","n">>)
              -> "qwen2.5-vl-2b-q4_k_m.gguf"
      [] OTHER -> "qwen2.5-7b-q6_k.gguf"

\* C20: on an initialized session the model execute_task selects is decided
\* by a case-insensitive keyword match on the task type, the first match
\* winning: "code" or "programming" gives the Coder model, else "math" or
\* "calculate" the Math model, else "image" or "vision" the Vision model,
\* else the General model.
C20_KeywordSelection ==
    initialized /\ last_call.op = "execute_task" =>
        /\ last_call.outcome = "returned"
        /\ last_call.model = StatedModelForTask(last_call.task_type)

\* C20 witness: a task type in capitals that names a math keyword was
\* executed on an initialized session and got the Math model.
C20_Witness ==
    /\ initialized
    /\ last_call.op = "execute_task"
    /\ last_call.task_type = <<"C","A","L","C","U","L","A","T","E">>
    /\ last_call.model = "qwen2.5-math-7b-q6_k.gguf"

\* C21: an operation that takes a model name the catalog does not hold
\* (load_model with its default configuration, unload_model) never raises: it
\* ends by returning False.
C21_LookupMissNeverRaises ==
    /\ last_call.op \in {"load_model", "unload_model"}
    /\ get_model_by_name(last_call.model) = NoModel
    => last_call.outcome = "returned False"

\* the three rules of _setup_default_orchestration_rules are in the list, one
\* after the other
DefaultRulesInstalled ==
    LET defaults ==
            << [condition |-> "user_action == 'writing_email'",
                action |-> "use Qwen2.5-7B", priority |-> 1],
               [condition |-> "user_action == 'debugging_python'",
                action |-> "use Qwen2.5-Coder-7B", priority |-> 1],
               [condition |-> "query_complexity == 'high' AND battery > 50%",
                action |-> "use Qwen2.5-32B", priority |-> 2] >>
    IN  \E k \in 0..(Len(orchestration_rules) - Len(defaults)) :
            \A j \in 1..Len(defaults) :
                /\ orchestration_rules[k + j].condition = defaults[j].condition
                /\ orchestration_rules[k + j].action = defaults[j].action
                /\ orchestration_rules[k + j].priority = defaults[j].priority

\* C22: in every session state with initialized true the session holds a
\* capability vector, it is the vector the profiler assembled last, and the
\* default orchestration rules are in the rule list; and a step never takes
\* initialized from true to false.
C22_InitializedHasVectorAndRules ==
    /\ [](initialized =>
            /\ capability_vector # NoVector
            /\ capability_vector = profiler_vector
            /\ DefaultRulesInstalled)
    /\ [][initialized => initialized']_vars

\* C22 witness: an initialized session whose second initialize() was left by
\* the census error.
C22_Witness ==
    /\ initialized
    /\ inits = 2
    /\ last_call.op = "initialize"
    /\ last_call.outcome = "AttributeError"
    /\ capability_vector = profiler_vector
    /\ DefaultRulesInstalled

MaxSample ==
    CHOOSE m \in {samples[i].temp : i \in 1..Len(samples)} :
        \A i \in 1..Len(samples) : m >= samples[i].temp

\* C24: when the initial reading was available and the polling loop obtained
\* samples, all of them while the load generator ran, the temp_delta the thermal stage returns is the maximum of those
\* samples minus the initial temperature, also when every sample is below the
\* initial reading.
C24_DeltaIsMaxSampleMinusInitial ==
    /\ ThermalReturned
    /\ initial_temp # NoneVal
    /\ samples # <<>>
    /\ \A i \in 1..Len(samples) : samples[i].during_load
    => thermal_data.temp_delta = MaxSample - initial_temp

\* the score as the design states it, in hundredths of a point: every
\* sub-score clipped to 0..100 points (0..1000 tenths) before the weighting
Clip(x, lo, hi) == IF x < lo THEN lo ELSE IF x > hi THEN hi ELSE x

StatedOverallScore(latency, memory_pressure, parallel_time) ==
    Clip(4 * Clip(1000 - latency, 0, 1000)
           + 3 * Clip(1000 - memory_pressure, 0, 1000)
           + 3 * Clip(1000 - 10 * parallel_time, 0, 1000),
         0, 10000)

\* C25: for every latency, memory pressure and parallel time, negative ones
\* included, the overall_score is the weighted sum 0.4 / 0.3 / 0.3 of the
\* three sub-scores, each clipped to 0..100 before the weighting, and the sum
\* clipped to 0..100.
C25_SubScoresClipped ==
    benchmark_data # NoData =>
        benchmark_data.overall_score =
            StatedOverallScore(benchmark_data.latency_ms_per_token,
                               benchmark_data.memory_pressure_mb,
                               benchmark_data.parallel_performance)

\* the descriptors of the catalog that carry the name n
Named(n) == {model_catalog[i] : i \in {j \in 1..Len(model_catalog) : model_catalog[j].name = n}}

\* C26: whenever profiles are generated, the model the Speed Demon profile
\* recommends is a suitable one with the smallest ram_requirement_gb, its
\* gpu_layers is 0, and its fallback_model has a strictly higher
\* ram_requirement_gb than its recommended_model.
C26_SpeedDemonFallbackLarger ==
    Recommended /\ recommendations.profiles # EmptyDict =>
        LET sd == recommendations.profiles.speed_demon
        IN  /\ sd.gpu_layers = 0
            /\ \E r \in Named(sd.recommended_model) \cap Range(suitable_models) :
                  /\ \A m \in Range(suitable_models) :
                        r.ram_requirement_gb <= m.ram_requirement_gb
                  /\ \E f \in Named(sd.fallback_model) :
                        f.ram_requirement_gb > r.ram_requirement_gb

\* every model name the four profiles mention
ProfileModelNames ==
    LET p == recommendations.profiles
    IN  {p.balanced_daily_driver.recommended_model,
         p.speed_demon.recommended_model,
         p.speed_demon.fallback_model,
         p.power_user_config.recommended_model}
          \cup Range(p.specialist_ensemble.recommended_models)
          \cup {p.specialist_ensemble.routing_rules[i].model :
                   i \in 1..Len(p.specialist_ensemble.routing_rules)}

\* C27: whenever profiles are generated, every model name in the four
\* profiles (recommended_model, recommended_models, the models of the
\* routing rules, fallback_model) is the name of a descriptor of the
\* suitable set of the vector.
C27_ProfilesNameSuitableModels ==
    Recommended /\ recommendations.profiles # EmptyDict =>
        \A n \in ProfileModelNames :
            \E m \in Range(suitable_models) :
                m.name = n /\ StatedSuitable(m, capability_vector)

\* C27 witness: a vector for which only one descriptor is suitable, so every
\* pick of the profiles went down its fallback chain to that descriptor.
C27_Witness ==
    /\ Recommended
    /\ Len(suitable_models) = 1
    /\ recommendations.profiles # EmptyDict
    /\ ProfileModelNames = {suitable_models[1].name}

====
